---------------------------- MODULE Spec2Model ----------------------------
(***************************************************************************)
(* Model of scripts/upgrade_dbt_schema_tests_v1_to_v2.py: the conversion   *)
(* of a version-1 dbt schema document (model -> constraints -> test kind   *)
(* -> values) into a version-2 document (models -> columns -> tests), and  *)
(* the command-line glue around it (parse_args, backup_file, handle, main).*)
(*                                                                         *)
(* Python values are encoded as follows.                                   *)
(*   str                  a TLA+ string                                    *)
(*   dict                 a function from its keys; an insertion-ordered   *)
(*                        dict that is iterated is a sequence of           *)
(*                        <<key, value>> items                             *)
(*   test values          [list |-> <<...>>] for a list, [scalar |-> v]    *)
(*                        for anything that is not a list                  *)
(*   test entry           [str |-> K] for the bare string K,               *)
(*                        [map |-> (K :> params)] for the dict {K: params} *)
(*   model definition     [map |-> d] for a mapping d, [int |-> n] for an  *)
(*                        integer (a top-level "version: n" item)          *)
(*   a call's result      [outcome |-> "return" or "raise", ...]           *)
(***************************************************************************)
EXTENDS Naturals, Sequences, FiniteSets, TLC

VARIABLES
    initial,    \* convert_schema: the items of the input document iterated so far
    models,     \* convert_schema: the local list `models`
    builder,    \* convert_schema: the ModelTestBuilder of the current model, or NoBuilder
    pc,         \* convert_schema: "loop" | "populate" | "returned" | "raised"
    exc,        \* convert_schema: the exception type that escaped, or "None"
    output,     \* convert_schema: the returned document, or NoDocument
    argv,       \* command line: the options given
    fs0,        \* command line: the files before the invocation
    fs,         \* command line: the files now (path -> contents)
    log,        \* command line: the records LOGGER has emitted
    call,       \* command line: "idle" | "handle" | "main", the entry point that ran
    result      \* command line: the entry point's result

convVars == <<initial, models, builder, pc, exc, output>>
cliVars == <<argv, fs0, fs, log, call, result>>
vars == <<initial, models, builder, pc, exc, output, argv, fs0, fs, log, call, result>>

---------------------------------------------------------------------------
(* Bounds of the explored inputs.                                          *)

\* the size of an input document is the number of its top-level items, plus
\* the number of test kinds in its constraints mappings, plus the number of
\* list elements (declarations) under those kinds; documents up to this size
\* are explored
MaxSize == 6

---------------------------------------------------------------------------
(* Python's str ordering, on the strings the model uses.                   *)

StrOrder ==
    <<"accepted_values", "blue", "email", "id", "not_null", "relationships", "unique">>

StrRank(s) == CHOOSE i \in 1..Len(StrOrder) : StrOrder[i] = s

StrLT(a, b) == StrRank(a) < StrRank(b)

\* names bound at module level when a function body runs (imports, defs,
\* classes, assignments); every other global name raises NameError
ModuleGlobals ==
    {"ArgumentParser", "logging", "sys", "yaml", "LOGGER", "LOGFILE",
     "basestring", "OperationalError", "setup_loging", "parse_args",
     "backup_file", "handle", "main", "sort_keyfunc", "sorted_column_list",
     "ModelTestBuilder", "convert_schema"}

Bound(name) == name \in ModuleGlobals

Return(v) == [outcome |-> "return", value |-> v]
Raise(e) == [outcome |-> "raise", exc |-> e]

---------------------------------------------------------------------------
(* sort_keyfunc, sorted_column_list                                        *)

IsString(item) == "str" \in DOMAIN item

sort_keyfunc_const(item) == "id"

sort_keyfunc(item) ==
    IF IsString(item)
    THEN item.str
    ELSE CHOOSE k \in DOMAIN item.map : TRUE

\* list.sort(key=...) and sorted(..., key=...): a stable sort, ascending in
\* the key. keys[i] is the key of s[i]; each index is inserted after the last
\* index whose key is not greater, so equal keys keep their order.
RECURSIVE InsertIndex(_, _, _)
InsertIndex(idx, i, keys) ==
    IF idx = <<>> THEN <<i>>
    ELSE LET last == idx[Len(idx)] IN
         IF StrLT(keys[i], keys[last])
         THEN Append(InsertIndex(SubSeq(idx, 1, Len(idx) - 1), i, keys), last)
         ELSE Append(idx, i)

RECURSIVE SortedIndices(_, _)
SortedIndices(n, keys) ==
    IF n = 0 THEN <<>> ELSE InsertIndex(SortedIndices(n - 1, keys), n, keys)

StableSort(s, keys) ==
    LET idx == SortedIndices(Len(s), keys) IN [i \in 1..Len(s) |-> s[idx[i]]]

SortTests(column) ==
    [column EXCEPT !.tests =
        StableSort(@, [i \in 1..Len(@) |-> sort_keyfunc(@[i])])]

SortColumns(column_dict) ==
    StableSort(column_dict, [i \in 1..Len(column_dict) |-> column_dict[i].name])

sorted_column_list_unsorted(column_dict) ==
    [i \in 1..Len(column_dict) |-> SortTests(column_dict[i])]

sorted_column_list_rawtests(column_dict) == SortColumns(column_dict)

\* column_dict: the values of self.columns in insertion order
sorted_column_list(column_dict) ==
    LET sorted == SortColumns(column_dict)
    IN  [i \in 1..Len(sorted) |-> SortTests(sorted[i])]

---------------------------------------------------------------------------
(* class ModelTestBuilder                                                  *)

SIMPLE_COLUMN_TESTS == {"unique", "not_null"}

\* map test name -> the key that indicates column name
COMPLEX_COLUMN_TESTS == [relationships |-> "from", accepted_values |-> "field"]

\* __init__: self.columns is kept as the sequence of its values in insertion
\* order (each value carries its key as "name")
ModelTestBuilder(model_name) ==
    [model_name |-> model_name, columns |-> <<>>, model_tests |-> <<>>]

HasColumn(self, column_name) ==
    \E i \in 1..Len(self.columns) : self.columns[i].name = column_name

\* get_column: the builder once the column exists (a new {'name', 'tests': []}
\* is inserted last when the name is not a key yet)
get_column(self, column_name) ==
    IF HasColumn(self, column_name)
    THEN self
    ELSE [self EXCEPT !.columns = Append(@, [name |-> column_name, tests |-> <<>>])]

add_test_overwrite(self, column_name, test_name) ==
    LET b == get_column(self, column_name)
        i == CHOOSE j \in 1..Len(b.columns) : b.columns[j].name = column_name
    IN  [b EXCEPT !.columns[i].tests = <<test_name>>]

add_test(self, column_name, test_name) ==
    LET b == get_column(self, column_name)
        i == CHOOSE j \in 1..Len(b.columns) : b.columns[j].name = column_name
    IN  [b EXCEPT !.columns[i].tests = Append(@, test_name)]

RECURSIVE handle_simple_column(_, _, _)
handle_simple_column(self, test_values, test_name) ==
    IF test_values = <<>> THEN self
    ELSE handle_simple_column(add_test(self, Head(test_values), [str |-> test_name]),
                              Tail(test_values), test_name)

\* {k: v for k, v in dct.items() if k != column_key}
TestValue(dct, column_key) == [k \in DOMAIN dct \ {column_key} |-> dct[k]]

RECURSIVE handle_complex_column(_, _, _)
handle_complex_column(self, test_values, test_name) ==
    LET column_key == COMPLEX_COLUMN_TESTS[test_name] IN
    IF test_values = <<>> THEN Return(self)
    ELSE LET dct == Head(test_values) IN
         IF column_key \notin DOMAIN dct
         THEN Raise("OperationalError")
         ELSE LET column_name == dct[column_key]
                  value == [map |-> (test_name :> TestValue(dct, column_key))]
              IN  handle_complex_column(add_test(self, column_name, value),
                                        Tail(test_values), test_name)

IsList(test_values) == "list" \in DOMAIN test_values

populate_test(self, test_name, test_values) ==
    IF ~IsList(test_values)
    THEN \* the message is formatted from the name model_name, which is
         \* neither a local nor a global of the module
         IF Bound("model_name") THEN Raise("OperationalError") ELSE Raise("NameError")
    ELSE IF test_name \in SIMPLE_COLUMN_TESTS
    THEN Return(handle_simple_column(self, test_values.list, test_name))
    ELSE IF test_name \in DOMAIN COMPLEX_COLUMN_TESTS
    THEN handle_complex_column(self, test_values.list, test_name)
    ELSE Raise("ValueError")

RECURSIVE populate_from_constraints(_, _)

\* the loop of populate_from_constraints after populate_test ended with r:
\* an exception propagates, otherwise the loop goes on with the rest
PopulateRest(r, rest) ==
    IF r.outcome = "raise" THEN r ELSE populate_from_constraints(r.value, rest)

\* constraints: the items of the constraints mapping, in iteration order
populate_from_constraints(self, constraints) ==
    IF constraints = <<>> THEN Return(self)
    ELSE PopulateRest(populate_test(self, Head(constraints)[1], Head(constraints)[2]),
                      Tail(constraints))

generate_model_dict(self) ==
    LET name == [name |-> self.model_name]
        tests == IF self.model_tests # <<>>
                 THEN [tests |-> self.model_tests] ELSE <<>>
        columns == IF self.columns # <<>>
                   THEN [columns |-> sorted_column_list(self.columns)] ELSE <<>>
    IN  name @@ tests @@ columns

---------------------------------------------------------------------------
(* convert_schema                                                          *)

IsMapping(model_data) == "map" \in DOMAIN model_data

HasConstraintsNonEmpty(model_data) ==
    /\ "constraints" \in DOMAIN model_data.map
    /\ model_data.map["constraints"] # <<>>

\* 'constraints' in model_data
HasConstraints(model_data) == "constraints" \in DOMAIN model_data.map

\* model = builder.generate_model_dict(); models.append(model), after
\* populate_from_constraints ended with r
AppendModel(done, r) ==
    IF r.outcome = "raise" THEN r
    ELSE Return(Append(done, generate_model_dict(r.value)))

\* the body of the for loop for one item, given the models converted so far
ConvertItem(done, item) ==
    LET model_name == item[1]
        model_data == item[2]
    IN  IF ~IsMapping(model_data) THEN Raise("TypeError")
        ELSE IF ~HasConstraints(model_data) THEN Return(done)
        ELSE AppendModel(done,
                         populate_from_constraints(ModelTestBuilder(model_name),
                                                   model_data.map["constraints"]))

RECURSIVE ConvertItems(_, _)

\* the for loop after the body ended with r for one item
ConvertRest(r, rest) ==
    IF r.outcome = "raise" THEN r ELSE ConvertItems(r.value, rest)

ConvertItems(done, items) ==
    IF items = <<>> THEN Return(done)
    ELSE ConvertRest(ConvertItem(done, Head(items)), Tail(items))

\* return {'version': 2, 'models': models}, after the for loop ended with r
ReturnModels(r) ==
    IF r.outcome = "raise" THEN r
    ELSE Return([version |-> 2, models |-> r.value])

\* doc: the items of the loaded document, in iteration order
convert_schema(doc) ==
    ReturnModels(ConvertItems(<<>>, doc))

---------------------------------------------------------------------------
(* The input documents explored.                                           *)

ModelNames == {"bar", "foo", "version"}
ColumnNames == {"email", "id"}
TestKinds == {"unique", "not_null", "relationships", "accepted_values", "foo_bar_test"}

\* the other key an element of a complex kind may carry
ParamKey == [relationships |-> "to", accepted_values |-> "values"]

SeqsUpTo(S, n) == UNION {[1..k -> S] : k \in 0..n}

\* the elements of a complex kind: dicts over a subset of {designator, parameter}
Elements(test_name) ==
    LET column_key == COMPLEX_COLUMN_TESTS[test_name]
        param_key == ParamKey[test_name]
    IN  UNION {
          {f \in [D -> ColumnNames \cup {"blue"}] :
              \A k \in D : IF k = column_key THEN f[k] \in ColumnNames ELSE f[k] = "blue"}
          : D \in SUBSET {column_key, param_key}}

\* the values a constraints mapping may give for a kind, with lists of at most n elements
TestValues(test_name, n) ==
    IF test_name \in DOMAIN COMPLEX_COLUMN_TESTS
    THEN {[list |-> l] : l \in SeqsUpTo(Elements(test_name), n)} \cup {[scalar |-> "id"]}
    ELSE {[list |-> l] : l \in SeqsUpTo(ColumnNames, n)} \cup {[scalar |-> "id"]}

EmptyDict == [k \in {} |-> k]

RECURSIVE SizeOfConstraints(_)
SizeOfConstraints(constraints) ==
    IF constraints = <<>> THEN 0
    ELSE 1 + (IF IsList(Head(constraints)[2]) THEN Len(Head(constraints)[2].list) ELSE 0)
           + SizeOfConstraints(Tail(constraints))

RECURSIVE Size(_)
Size(doc) ==
    IF doc = <<>> THEN 0
    ELSE 1 + (IF IsMapping(Head(doc)[2]) /\ HasConstraints(Head(doc)[2])
              THEN SizeOfConstraints(Head(doc)[2].map["constraints"]) ELSE 0)
           + Size(Tail(doc))

NamesOf(doc) == {doc[i][1] : i \in 1..Len(doc)}

\* the constraints items of the model being populated (the last item of initial)
CurrentConstraints == initial[Len(initial)][2].map["constraints"]

---------------------------------------------------------------------------
(* convert_schema, one step of its loops at a time.  The document is fed   *)
(* item by item; initial records what has been iterated so far.            *)

NoBuilder == [none |-> TRUE]
NoDocument == [none |-> TRUE]

IdleCli ==
    /\ argv = [none |-> TRUE]
    /\ fs0 = <<>>
    /\ fs = <<>>
    /\ log = <<>>
    /\ call = "idle"
    /\ result = [none |-> TRUE]

Init ==
    /\ initial = <<>>
    /\ models = <<>>
    /\ builder = NoBuilder
    /\ pc = "loop"
    /\ exc = "None"
    /\ output = NoDocument
    /\ IdleCli

\* the model definitions the next item may carry: a mapping without
\* 'constraints', a mapping with 'constraints' (its items are fed to
\* PopulateTest one at a time), or, for the key 'version', an integer
ModelData(model_name) ==
    {[map |-> EmptyDict], [map |-> ("constraints" :> <<>>)]}
    \cup (IF model_name = "version" THEN {[int |-> 1], [int |-> 2]} ELSE {})

\* for model_name, model_data in initial.items(): the next item, up to
\* builder = ModelTestBuilder(model_name)
LoopItem ==
    /\ pc = "loop"
    /\ Size(initial) < MaxSize
    /\ \E model_name \in ModelNames \ NamesOf(initial) :
       \E model_data \in ModelData(model_name) :
          /\ initial' = Append(initial, <<model_name, model_data>>)
          /\ IF ~IsMapping(model_data)
             THEN \* 'constraints' not in <int>
                  /\ pc' = "raised"
                  /\ exc' = "TypeError"
                  /\ UNCHANGED builder
             ELSE IF ~HasConstraints(model_data)
             THEN \* don't care about this model
                  UNCHANGED <<pc, exc, builder>>
             ELSE /\ builder' = ModelTestBuilder(model_name)
                  /\ pc' = "populate"
                  /\ UNCHANGED exc
    /\ UNCHANGED <<models, output>>
    /\ UNCHANGED cliVars

\* populate_from_constraints: the next (test_name, test_values) item
PopulateTest ==
    /\ pc = "populate"
    /\ Size(initial) < MaxSize
    /\ \E test_name \in TestKinds \ {CurrentConstraints[i][1] : i \in 1..Len(CurrentConstraints)} :
       \E test_values \in TestValues(test_name, MaxSize - Size(initial) - 1) :
          LET r == populate_test(builder, test_name, test_values) IN
          /\ initial' = [initial EXCEPT ![Len(initial)][2].map["constraints"] =
                            Append(@, <<test_name, test_values>>)]
          /\ IF r.outcome = "raise"
             THEN /\ pc' = "raised"
                  /\ exc' = r.exc
                  /\ UNCHANGED builder
             ELSE /\ builder' = r.value
                  /\ UNCHANGED <<pc, exc>>
    /\ UNCHANGED <<models, output>>
    /\ UNCHANGED cliVars

\* the constraints are exhausted: model = builder.generate_model_dict();
\* models.append(model)
GenerateModelDict ==
    /\ pc = "populate"
    /\ models' = Append(models, generate_model_dict(builder))
    /\ builder' = NoBuilder
    /\ pc' = "loop"
    /\ UNCHANGED <<initial, exc, output>>
    /\ UNCHANGED cliVars

\* the document is exhausted: return {'version': 2, 'models': models}
ReturnDocument ==
    /\ pc = "loop"
    /\ output' = [version |-> 2, models |-> models]
    /\ pc' = "returned"
    /\ UNCHANGED <<initial, models, builder, exc>>
    /\ UNCHANGED cliVars

Next ==
    \/ LoopItem
    \/ PopulateTest
    \/ GenerateModelDict
    \/ ReturnDocument

Spec == Init /\ [][Next]_vars

---------------------------------------------------------------------------
(* The command line: parse_args, backup_file, handle, main.                *)
(* A path is a sequence of strings (input_path + '.bak' appends '.bak');   *)
(* None is the empty sequence.  A file is Absent, or holds the YAML text   *)
(* of a document, abstracted by what yaml.safe_load returns for it.        *)

None == <<>>
InputPath == <<"schema.yml">>
GivenOutputPath == <<"out.yml">>
GivenBackupPath == <<"backup.yml">>

Paths ==
    {InputPath, InputPath \o <<".new">>, InputPath \o <<".bak">>,
     GivenOutputPath, GivenBackupPath}

Absent == [absent |-> TRUE]
\* an empty file: yaml.safe_load returns None
EmptyFile == [empty |-> TRUE]
\* a version-1 style file: yaml.safe_load returns the mapping with these items
DocFile(items) == [doc |-> items]
\* what yaml.safe_dump writes for the document convert_schema returned
DumpedFile(new_file) == [dumped |-> new_file]

Exists(files, path) == "absent" \notin DOMAIN files[path]

FooConstraints == [map |-> ("constraints" :> <<<<"not_null", [list |-> <<"id">>]>>>>)]
BadConstraints == [map |-> ("constraints" :> <<<<"foo_bar_test", [list |-> <<"id">>]>>>>)]

\* the documents the input file may hold
InputDocs ==
    { <<<<"foo", FooConstraints>>>>,
      <<<<"foo", FooConstraints>>, <<"bar", BadConstraints>>>>,
      <<<<"version", [int |-> 1]>>, <<"foo", FooConstraints>>>>,
      <<<<"version", [int |-> 2]>>, <<"foo", FooConstraints>>>>,
      <<<<"version", FooConstraints>>>> }

\* a file left by an earlier run
StaleFile == DumpedFile([version |-> 2, models |-> <<>>])

\* the options on the command line (as given, before the defaults)
Options ==
    [overwrite : BOOLEAN, in_place : BOOLEAN,
     output_path : {None, GivenOutputPath}, backup_path : {None, GivenBackupPath},
     input_path : {InputPath}]

\* the end of parse_args: what it derives from the parsed options
ParseDefaults(parsed) ==
    LET p1 == IF parsed.in_place THEN [parsed EXCEPT !.overwrite = TRUE] ELSE parsed
    IN  IF p1.output_path = None
        THEN IF p1.in_place
             THEN [p1 EXCEPT !.output_path = p1.input_path,
                             !.backup_path = p1.input_path \o <<".bak">>]
             ELSE [p1 EXCEPT !.output_path = p1.input_path \o <<".new">>]
        ELSE p1

\* argparse: add_argument('input-path', dest='input_path') raises
\* ValueError('dest supplied twice for positional argument')
PositionalDestRejected == TRUE

parse_args(args) ==
    IF PositionalDestRejected THEN Raise("ValueError") ELSE Return(ParseDefaults(args))

\* the result of a call that touches the files and the log
Outcome(outcome, e, files, records, steps) ==
    [outcome |-> outcome, exc |-> e, fs |-> files, log |-> records, steps |-> steps]

backup_file(src, dst, overwrite, files, records, steps) ==
    IF ~overwrite /\ ~Bound("os")
    THEN Outcome("raise", "NameError", files, records, steps)
    ELSE IF ~overwrite /\ Exists(files, dst)
    THEN Outcome("raise", "OperationalError", files, records, steps)
    ELSE IF ~Exists(files, src)
    THEN \* open(src, 'rb')
         Outcome("raise", "FileNotFoundError", files, records, steps)
    ELSE \* open(dst, 'wb') as ifp creates or truncates dst; then the third
         \* item of the with statement evaluates the name ofp
         LET truncated == [files EXCEPT ![dst] = EmptyFile] IN
         IF ~Bound("ofp")
         THEN Outcome("raise", "NameError", truncated, records, steps)
         ELSE \* ifp is the file opened for writing: ifp.read() fails
              Outcome("raise", "UnsupportedOperation", truncated, records, steps)

\* initial.get('version', 1): [int |-> n] for an integer, [other |-> TRUE]
\* for a value that is not an integer
Version(loaded) ==
    IF "dumped" \in DOMAIN loaded THEN [int |-> loaded.dumped.version]
    ELSE IF \E i \in 1..Len(loaded.doc) : loaded.doc[i][1] = "version"
    THEN LET v == loaded.doc[CHOOSE i \in 1..Len(loaded.doc) : loaded.doc[i][1] = "version"][2]
         IN  IF "int" \in DOMAIN v THEN v ELSE [other |-> TRUE]
    ELSE [int |-> 1]

\* convert_schema on what yaml.safe_load returned
ConvertLoaded(loaded) ==
    IF "dumped" \in DOMAIN loaded
    THEN \* 'constraints' not in 2
         Raise("TypeError")
    ELSE convert_schema(loaded.doc)

\* handle, from new_file = convert_schema(initial) on; r is the call's result
WriteOutput(parsed, files, records, steps, r) ==
    IF r.outcome = "raise"
    THEN Outcome("raise", r.exc, files, records, steps)
    ELSE Outcome("return", "None",
                 [files EXCEPT ![parsed.output_path] = DumpedFile(r.value)],
                 records, Append(steps, "write"))

\* handle, from `if not os.path.exists(parsed.input_path)` on.  Where a name
\* that the module never binds is read, the call raises NameError; the
\* branch after it reads the name as the attribute of parsed it is spelled
\* after.
HandleAfterBackup(parsed, files, records, steps) ==
    IF ~Bound("os")
    THEN Outcome("raise", "NameError", files, records, steps)
    ELSE
    LET log1 == IF ~Exists(files, parsed.input_path)
                THEN Append(records, [level |-> "error", msg |-> "input file does not exist"])
                ELSE records
    IN
    IF ~Bound("parsed_args")
    THEN Outcome("raise", "NameError", files, log1, steps)
    ELSE IF ~Exists(files, parsed.input_path)
    THEN Outcome("raise", "FileNotFoundError", files, log1, steps)
    ELSE
    LET loaded == files[parsed.input_path]
        steps1 == Append(steps, "load")
    IN
    IF "empty" \in DOMAIN loaded
    THEN \* None.get
         Outcome("raise", "AttributeError", files, log1, steps1)
    ELSE
    LET version == Version(loaded) IN
    IF "int" \in DOMAIN version /\ version.int # 1
    THEN Outcome("return", "None", files,
                 Append(log1, [level |-> "error", msg |-> "input file is not a v1 yaml file"]),
                 steps1)
    ELSE IF ~Bound("output_path") \/ ~Bound("overwrite")
    THEN Outcome("raise", "NameError", files, log1, steps1)
    ELSE IF Exists(files, parsed.output_path) /\ ~parsed.overwrite
    THEN Outcome("return", "None", files,
                 Append(log1, [level |-> "error", msg |-> "output file already exists"]),
                 steps1)
    ELSE WriteOutput(parsed, files, log1, Append(steps1, "convert_schema"),
                     ConvertLoaded(loaded))

\* handle, after backup_file(...) ended with r
AfterBackup(parsed, r) ==
    IF r.outcome = "raise" THEN r
    ELSE HandleAfterBackup(parsed, r.fs, r.log, r.steps)

handle(parsed, files, records) ==
    IF parsed.backup_path # None
    THEN AfterBackup(parsed,
                     backup_file(parsed.output_path, parsed.backup_path,
                                 parsed.overwrite, files, records, <<"backup_file">>))
    ELSE HandleAfterBackup(parsed, files, records, <<>>)

\* main's try statement, after handle(parsed) ended with h
MainTry(h) ==
    IF h.outcome = "return"
    THEN \* else:
         Outcome("return", "None", h.fs,
                 Append(h.log, [level |-> "info", msg |-> "successfully converted"]),
                 h.steps)
    ELSE IF h.exc = "OperationalError"
    THEN \* LOGGER.error(exc.message): exceptions have no attribute message
         Outcome("raise", "AttributeError", h.fs, h.log, h.steps)
    ELSE \* except:
         Outcome("return", "None", h.fs,
                 Append(h.log, [level |-> "error", msg |-> "Fatal error during conversion attempt"]),
                 h.steps)

\* main, after parse_args(args) ended with p: setup_logging and the try
\* statement; parse_args and setup_logging run outside the try
MainBody(p, files, records) ==
    IF p.outcome = "raise"
    THEN Outcome("raise", p.exc, files, records, <<>>)
    ELSE IF ~Bound("setup_logging")
    THEN Outcome("raise", "NameError", files, records, <<>>)
    ELSE MainTry(handle(p.value, files, records))

main(args, files, records) == MainBody(parse_args(args), files, records)

IdleConv ==
    /\ initial = <<>>
    /\ models = <<>>
    /\ builder = NoBuilder
    /\ pc = "loop"
    /\ exc = "None"
    /\ output = NoDocument

InitCli ==
    /\ IdleConv
    /\ argv \in Options
    /\ \E input \in {Absent} \cup {DocFile(d) : d \in InputDocs} :
       \E others \in [Paths \ {InputPath} -> {Absent, StaleFile}] :
          fs0 = [path \in Paths |-> IF path = InputPath THEN input ELSE others[path]]
    /\ fs = fs0
    /\ log = <<>>
    /\ call = "idle"
    /\ result = [none |-> TRUE]

\* the entry point ended with r: its effects on the files and the log
Finish(r) ==
    /\ fs' = r.fs
    /\ log' = r.log
    /\ result' = [outcome |-> r.outcome, exc |-> r.exc, steps |-> r.steps]

\* handle(parsed), called with the namespace parse_args derives from the options
CallHandle ==
    /\ call = "idle"
    /\ Finish(handle(ParseDefaults(argv), fs, log))
    /\ call' = "handle"
    /\ UNCHANGED <<argv, fs0>>
    /\ UNCHANGED convVars

\* main(args)
CallMain ==
    /\ call = "idle"
    /\ Finish(main(argv, fs, log))
    /\ call' = "main"
    /\ UNCHANGED <<argv, fs0>>
    /\ UNCHANGED convVars

NextCli ==
    \/ CallHandle
    \/ CallMain

SpecCli == InitCli /\ [][NextCli]_vars

---------------------------------------------------------------------------
(* Properties of convert_schema.  The input side of each property is read  *)
(* from initial with the definitions below, which restate the input format *)
(* and do not use the builder.                                             *)

Returned == pc = "returned"

\* the names of the input items that are mappings with a 'constraints' key,
\* in input order
RECURSIVE ConstrainedNames(_)
ConstrainedNames(doc) ==
    IF doc = <<>> THEN <<>>
    ELSE LET item == Head(doc) IN
         (IF "map" \in DOMAIN item[2] /\ "constraints" \in DOMAIN item[2].map
          THEN <<item[1]>> ELSE <<>>) \o ConstrainedNames(Tail(doc))

\* the constraints items the input gives for a model name
InputConstraints(model_name) ==
    LET i == CHOOSE j \in 1..Len(initial) : initial[j][1] = model_name
    IN  initial[i][2].map["constraints"]

Designator == [relationships |-> "from", accepted_values |-> "field"]

\* the declarations of one (kind, list) item as <<column, entry>> pairs
DeclaredBy(kind, list) ==
    IF kind \in {"unique", "not_null"}
    THEN [i \in 1..Len(list) |-> <<list[i], [str |-> kind]>>]
    ELSE [i \in 1..Len(list) |->
            <<list[i][Designator[kind]],
              [map |-> (kind :> [k \in DOMAIN list[i] \ {Designator[kind]} |-> list[i][k]])]>>]

\* the declarations of a valid constraints mapping, in declaration order
RECURSIVE Declared(_)
Declared(constraints) ==
    IF constraints = <<>> THEN <<>>
    ELSE DeclaredBy(Head(constraints)[1], Head(constraints)[2].list)
         \o Declared(Tail(constraints))

\* the entries declared for one column, in declaration order
RECURSIVE DeclaredFor(_, _)
DeclaredFor(decls, column_name) ==
    IF decls = <<>> THEN <<>>
    ELSE (IF Head(decls)[1] = column_name THEN <<Head(decls)[2]>> ELSE <<>>)
         \o DeclaredFor(Tail(decls), column_name)

ColumnsOf(model) == IF "columns" \in DOMAIN model THEN model.columns ELSE <<>>

TestsOf(model, column_name) ==
    LET cols == ColumnsOf(model) IN
    IF \E i \in 1..Len(cols) : cols[i].name = column_name
    THEN cols[CHOOSE i \in 1..Len(cols) : cols[i].name = column_name].tests
    ELSE <<>>

\* the kind name of a test entry: the bare string, or the mapping's sole key
KindName(entry) ==
    IF "str" \in DOMAIN entry THEN entry.str
    ELSE CHOOSE k \in DOMAIN entry.map : DOMAIN entry.map = {k}

Count(seq, e) == Cardinality({i \in 1..Len(seq) : seq[i] = e})

Range(seq) == {seq[i] : i \in 1..Len(seq)}

RECURSIVE OfKind(_, _)
OfKind(entries, kind) ==
    IF entries = <<>> THEN <<>>
    ELSE (IF KindName(Head(entries)) = kind THEN <<Head(entries)>> ELSE <<>>)
         \o OfKind(Tail(entries), kind)

\* C1: in every returned document, the columns of every model record that
\* has a 'columns' key are strictly ascending by name (so no name repeats).
C1_ColumnsStrictlyAscending ==
    Returned =>
        \A m \in 1..Len(output.models) :
            "columns" \in DOMAIN output.models[m] =>
                LET cols == output.models[m].columns IN
                \A i \in 1..(Len(cols) - 1) : StrLT(cols[i].name, cols[i + 1].name)

\* C1 witness: a returned model whose constraints reference "id" before
\* "email" and whose record lists email, then id.
C1_Witness ==
    /\ Returned
    /\ \E m \in 1..Len(output.models) :
          LET decls == Declared(InputConstraints(output.models[m].name)) IN
          /\ Len(decls) >= 2
          /\ decls[1][1] = "id"
          /\ decls[2][1] = "email"
          /\ Len(ColumnsOf(output.models[m])) = 2

\* C2: in every returned document, every column's tests are in
\* non-decreasing order of kind name (bare and parameterized entries in one
\* alphabetical sequence), and the entries of one kind name keep the order
\* in which they were declared.
C2_TestsSortedStable ==
    Returned =>
        \A m \in 1..Len(output.models) :
            LET model == output.models[m]
                decls == Declared(InputConstraints(model.name))
                cols == ColumnsOf(model)
            IN  \A c \in 1..Len(cols) :
                  LET tests == cols[c].tests IN
                  /\ \A i \in 1..(Len(tests) - 1) :
                        ~StrLT(KindName(tests[i + 1]), KindName(tests[i]))
                  /\ \A kind \in {KindName(tests[i]) : i \in 1..Len(tests)} :
                        OfKind(tests, kind) = OfKind(DeclaredFor(decls, cols[c].name), kind)

\* C2 witness: a returned column that was given 'not_null' first and an
\* accepted_values entry second, and lists the accepted_values entry first.
C2_Witness ==
    /\ Returned
    /\ \E m \in 1..Len(output.models) :
          LET model == output.models[m]
              declared == DeclaredFor(Declared(InputConstraints(model.name)), "id")
              tests == TestsOf(model, "id")
          IN  /\ Len(declared) = 2
              /\ KindName(declared[1]) = "not_null"
              /\ KindName(declared[2]) = "accepted_values"
              /\ tests = <<declared[2], declared[1]>>

\* C3: in every returned document, 'version' is 2 and the names of the
\* model records are exactly the input names whose definition has a
\* 'constraints' key, in input order; a model whose constraints mapping is
\* empty yields the record {name}.
C3_ModelsAreConstrainedModelsInOrder ==
    Returned =>
        /\ output.version = 2
        /\ [m \in 1..Len(output.models) |-> output.models[m].name]
              = ConstrainedNames(initial)
        /\ \A m \in 1..Len(output.models) :
              InputConstraints(output.models[m].name) = <<>>
                  => output.models[m] = [name |-> output.models[m].name]

\* C3 witness: a returned document whose input had a model without
\* 'constraints' followed by a model with an empty constraints mapping.
C3_Witness ==
    /\ Returned
    /\ Len(initial) = 2
    /\ "constraints" \notin DOMAIN initial[1][2].map
    /\ "constraints" \in DOMAIN initial[2][2].map
    /\ initial[2][2].map["constraints"] = <<>>
    /\ output.models = <<[name |-> initial[2][1]]>>

\* C4: in every returned document, for every model record and every column
\* name, the column's tests are, as a multiset, exactly the entries declared
\* for that column (one bare kind name per occurrence under a simple kind,
\* one {kind: element minus designator} per element of a complex kind), and
\* a column is present exactly when some declaration references it.
C4_TestsAreTheDeclaredMultiset ==
    Returned =>
        \A m \in 1..Len(output.models) :
            LET model == output.models[m]
                decls == Declared(InputConstraints(model.name))
                cols == ColumnsOf(model)
                referenced == {decls[i][1] : i \in 1..Len(decls)}
            IN  /\ {cols[i].name : i \in 1..Len(cols)} = referenced
                /\ \A c \in referenced :
                      LET tests == TestsOf(model, c)
                          declared == DeclaredFor(decls, c)
                      IN  /\ Len(tests) = Len(declared)
                          /\ \A e \in Range(tests) \cup Range(declared) :
                                Count(tests, e) = Count(declared, e)

\* C4 witness: a returned column declared by a simple and by a complex
\* constraint, and a returned column named twice under one simple kind.
C4_Witness ==
    /\ Returned
    /\ \E m \in 1..Len(output.models) :
          LET model == output.models[m]
              decls == Declared(InputConstraints(model.name))
          IN  \E c \in ColumnNames :
                LET declared == DeclaredFor(decls, c) IN
                /\ Len(declared) = 3
                /\ Count(declared, [str |-> "unique"]) = 2
                /\ \E i \in 1..3 : "map" \in DOMAIN declared[i]
                /\ Len(TestsOf(model, c)) = 3

Reorderings(s) ==
    {[i \in 1..Len(s) |-> s[p[i]]] :
        p \in {q \in [1..Len(s) -> 1..Len(s)] : \A i, j \in 1..Len(s) : q[i] = q[j] => i = j}}

\* C5: the record of a returned model is the record obtained from any
\* permutation of the (kind, values) items of its constraints mapping.
C5_KindOrderIrrelevant ==
    Returned =>
        \A m \in 1..Len(output.models) :
            LET model == output.models[m] IN
            \A perm \in Reorderings(InputConstraints(model.name)) :
                LET r == populate_from_constraints(ModelTestBuilder(model.name), perm)
                IN  /\ r.outcome = "return"
                    /\ generate_model_dict(r.value) = model

\* C5 witness: a returned model whose constraints give 'unique' before
\* 'not_null', both on the same column.
C5_Witness ==
    /\ Returned
    /\ \E m \in 1..Len(output.models) :
          LET constraints == InputConstraints(output.models[m].name) IN
          /\ Len(constraints) = 2
          /\ constraints[1][1] = "unique"
          /\ constraints[2][1] = "not_null"
          /\ Len(TestsOf(output.models[m], "id")) = 2

\* the three validation failures of the last (kind, values) item fed
LastItemInvalid ==
    /\ "map" \in DOMAIN initial[Len(initial)][2]
    /\ "constraints" \in DOMAIN initial[Len(initial)][2].map
    /\ CurrentConstraints # <<>>
    /\ LET kind == CurrentConstraints[Len(CurrentConstraints)][1]
           values == CurrentConstraints[Len(CurrentConstraints)][2]
       IN  \/ "list" \notin DOMAIN values
           \/ /\ kind \in DOMAIN Designator
              /\ \E i \in 1..Len(values.list) : Designator[kind] \notin DOMAIN values.list[i]
           \/ kind \notin {"unique", "not_null", "relationships", "accepted_values"}

\* C6: when populating a model fails on a value that is not a list, on an
\* element without its designator key, or on an unknown kind, the exception
\* that escapes is OperationalError.
C6_ValidationFailuresAreOperationalError ==
    (pc = "raised" /\ LastItemInvalid) => exc = "OperationalError"

---------------------------------------------------------------------------
(* Properties of the command line.                                         *)

Logged(msg) == \E i \in 1..Len(log) : log[i].msg = msg

\* the 'version' the input file reports is an integer other than 1
InputVersionMismatch ==
    /\ Exists(fs0, InputPath)
    /\ "doc" \in DOMAIN fs0[InputPath]
    /\ \E i \in 1..Len(fs0[InputPath].doc) :
          /\ fs0[InputPath].doc[i][1] = "version"
          /\ "int" \in DOMAIN fs0[InputPath].doc[i][2]
          /\ fs0[InputPath].doc[i][2].int # 1

\* the input file exists and its 'version' is absent, 1, or not an integer
InputVersionAccepted ==
    /\ Exists(fs0, InputPath)
    /\ "doc" \in DOMAIN fs0[InputPath]
    /\ ~InputVersionMismatch

Step(name) == \E i \in 1..Len(result.steps) : result.steps[i] = name

\* C8: when the input file's 'version' is an integer other than 1, handle
\* logs the mismatch and returns without raising, without calling
\* convert_schema and without writing; when 'version' is absent, 1 or not an
\* integer, handle goes on to the conversion.
C8_VersionMismatchReturnsQuietly ==
    (call = "handle" /\ ParseDefaults(argv).backup_path = None) =>
        /\ InputVersionMismatch =>
              /\ result.outcome = "return"
              /\ Logged("input file is not a v1 yaml file")
              /\ ~Step("convert_schema")
              /\ fs = fs0
        /\ (InputVersionAccepted
              /\ (Exists(fs0, ParseDefaults(argv).output_path) => ParseDefaults(argv).overwrite))
              => Step("convert_schema")

\* C9: with a backup path set, whenever handle writes the output file the
\* backup path holds the contents the output path had before; and when the
\* backup destination exists and overwrite was not requested, handle ends
\* with OperationalError and changes no file.
C9_BackupBeforeWriteAndGuarded ==
    (call = "handle" /\ ParseDefaults(argv).backup_path # None) =>
        LET parsed == ParseDefaults(argv) IN
        /\ Step("write") => fs[parsed.backup_path] = fs0[parsed.output_path]
        /\ (Exists(fs0, parsed.backup_path) /\ ~parsed.overwrite) =>
              /\ result.outcome = "raise"
              /\ result.exc = "OperationalError"
              /\ fs = fs0

=============================================================================
